---- MODULE Spec2Model ----
(***************************************************************************)
(* Model of tasks.py: the robot-ordering pipeline                          *)
(*   order_robots_from_RobotSpareBin = get_orders; open site; per order    *)
(*   {close modal, fill, submit, resubmit while banner, store receipt,     *)
(*   new order}; archive.                                                  *)
(* The file system, the web site and the HTTP endpoint are the             *)
(* environment; the CSV served is fixed at Init, what the site does (how   *)
(* many submissions of a row it rejects, modal shown, receipt rendered, an *)
(* action timing out) is chosen at the step where the code meets it.       *)
(***************************************************************************)
EXTENDS Integers, Sequences, FiniteSets, TLC

\* ---------------------------------------------------------------- bounds
MaxOrders == 2      \* longest CSV table
MaxOrderNo == 2     \* order numbers are 1..MaxOrderNo
MaxRejects == 1     \* most banner rejections a non-persistent order gets
MaxRuns == 2        \* process runs against the same file system

\* the profile value meaning "the banner shows after every click"
Forever == MaxRejects + 1
\* the observation counter of submit clicks saturates here
MaxClicks == MaxRejects + 3

VARIABLES
    artifacts,      \* value of OUTPUT_DIR's first component (env ROBOT_ARTIFACTS or "output")
    remote,         \* the table the CSV endpoint serves
    files, dirs,    \* the file system: file paths, directories
    zipContents,    \* members of OUTPUT_DIR/receipts.zip
    pc, err,        \* position in order_robots_from_RobotSpareBin, exception raised
    orders, i,      \* the table read, the 1-based index of the loop's row
    form,           \* <<field, value>> pairs filled since the form was reset
    profile,        \* the site's plan for the current row: rejections before acceptance, or Forever
    bannerVisible, receiptPresent, modalVisible, rejectsLeft,  \* page state
    lastCheck,      \* result of the last is_visible(".alert-danger") since the last click
    submitClicks,   \* submit clicks for the current row (saturating)
    fills, accepted, captures, writtenBy,   \* per row index, this run (accepted saturating)
    closeCalls, okClicks, modalSeen,        \* close_annoying_modal observations
    newOrderClicks, archiveCalls, browserUsed,
    runs, files0, dirs0, snap               \* run number, file system at run start, names after the previous run

vars == <<artifacts, remote, profile, files, dirs, zipContents, pc, err, orders, i,
          form, bannerVisible, receiptPresent, modalVisible, rejectsLeft,
          lastCheck, submitClicks, fills, accepted, captures, writtenBy,
          closeCalls, okClicks, modalSeen, newOrderClicks, archiveCalls,
          browserUsed, runs, files0, dirs0, snap>>

\* ---------------------------------------------------------------- paths
Roots == {"output", "artifacts"}

OUTPUT_DIR == <<artifacts>>
CURDIR == <<"curdir">>
ORDERS_DIR == OUTPUT_DIR \o <<"orders">>

File(d, nm, n) == [dir |-> d, name |-> nm, n |-> n]

\* mkdir(parents=True, exist_ok=True)
MkdirParents(d) == { SubSeq(d, 1, k) : k \in 1..Len(d) }

IsUnder(f, d) == /\ Len(f.dir) >= Len(d)
                 /\ SubSeq(f.dir, 1, Len(d)) = d

FilesUnder(fs, d) == { f \in fs : IsUnder(f, d) }

\* a receipt name that also carries the run, so that a rerun adds files
PdfFileStamped(n) == File(ORDERS_DIR, "order_.pdf", n + runs * (MaxOrderNo + 1))


PdfFile(n) == File(ORDERS_DIR, "order_.pdf", n)
ReceiptFile(n) == File(OUTPUT_DIR, "receipt_.png", n)
RobotFile(n) == File(OUTPUT_DIR, "robot_.png", n)
CsvFile == File(CURDIR, "orders.csv", 0)
ZipFile == File(OUTPUT_DIR, "receipts.zip", 0)

\* the folder archive_receipts compresses
ArchiveSource == <<"output", "orders">>

\* ---------------------------------------------------------------- inputs
\* the columns get_orders projects; the served CSV carries one more
Columns == {"Order number", "Head", "Body", "Legs", "Address"}

Row(n) == [c \in Columns \cup {"Note"} |->
             CASE c = "Order number" -> n
               [] c = "Head" -> n
               [] c = "Body" -> 10 + n
               [] c = "Legs" -> 20 + n
               [] c = "Address" -> 30 + n
               [] OTHER -> 0]

\* Tables.read_table_from_csv(csv_file, columns=[...]): rows in file order,
\* each projected onto the named columns
ReadTable(t) == [k \in DOMAIN t |-> [c \in Columns |-> t[k][c]]]

Tables == UNION { [1..len -> {Row(n) : n \in 1..MaxOrderNo}] : len \in 0..MaxOrders }

Distinct(t) == \A a, b \in DOMAIN t : a # b => t[a]["Order number"] # t[b]["Order number"]

Zeroes(t) == [k \in DOMAIN t |-> 0]

\* what a run under an overridden root may find in ./output: nothing, or a
\* receipt an earlier default-root run left behind
Leftovers == { {}, {File(<<"output", "orders">>, "order_.pdf", MaxOrderNo + 1)} }

Init ==
    /\ artifacts \in Roots
    /\ remote \in Tables
    /\ profile = 0
    /\ files \in (IF artifacts = "output" THEN {{}} ELSE Leftovers)
    /\ dirs = UNION { MkdirParents(f.dir) : f \in files }
    /\ zipContents = {}
    /\ pc = "boot"
    /\ err = "none"
    /\ orders = <<>>
    /\ i = 0
    /\ form = <<>>
    /\ bannerVisible = FALSE
    /\ receiptPresent = FALSE
    /\ modalVisible = FALSE
    /\ rejectsLeft = 0
    /\ lastCheck = "none"
    /\ submitClicks = 0
    /\ fills = Zeroes(remote)
    /\ accepted = Zeroes(remote)
    /\ captures = Zeroes(remote)
    /\ writtenBy = [k \in DOMAIN remote |-> {}]
    /\ closeCalls = 0
    /\ okClicks = 0
    /\ modalSeen = FALSE
    /\ newOrderClicks = 0
    /\ archiveCalls = 0
    /\ browserUsed = FALSE
    /\ runs = 1
    /\ files0 = files
    /\ dirs0 = dirs
    /\ snap = {}

\* ---------------------------------------------------------------- steps
fsVars == <<files, dirs, zipContents>>
envVars == <<artifacts, remote>>
pageVars == <<profile, bannerVisible, receiptPresent, modalVisible, rejectsLeft>>
modalObs == <<closeCalls, okClicks, modalSeen>>
rowObs == <<fills, accepted, captures, writtenBy>>
runVars == <<runs, files0, dirs0, snap>>

\* an exception caught per order: the loop goes on with the next row
RaiseIsolated(e) == /\ pc' = "loop"
                    /\ err' = e

\* an exception propagates out of the task: nothing catches it
Raise(e) == /\ pc' = "failed"
            /\ err' = e

\* module level, lines 14-19
ModuleLoad ==
    /\ pc = "boot"
    /\ dirs' = dirs \cup MkdirParents(ORDERS_DIR)
    /\ pc' = "get_orders"
    /\ UNCHANGED <<envVars, files, zipContents, err, orders, i, form, pageVars,
                   lastCheck, submitClicks, rowObs, modalObs, newOrderClicks,
                   archiveCalls, browserUsed, runVars>>

HttpStatuses == {200, 500}

\* requests.Response.raise_for_status
RaiseForStatus(status) == status >= 400

\* get_orders with the download error logged instead of propagated
GetOrdersCaught ==
    /\ pc = "get_orders"
    /\ \E status \in HttpStatuses :
         IF RaiseForStatus(status)
         THEN /\ err' = "HTTPError"
              /\ orders' = <<>>
              /\ pc' = "open_site"
              /\ UNCHANGED <<files, dirs>>
         ELSE /\ dirs' = dirs \cup {CURDIR}
              /\ files' = files \cup {CsvFile}
              /\ orders' = ReadTable(remote)
              /\ pc' = "open_site"
              /\ err' = err
    /\ UNCHANGED <<envVars, zipContents, i, form, pageVars, lastCheck,
                   submitClicks, rowObs, modalObs, newOrderClicks,
                   archiveCalls, browserUsed, runVars>>

\* get_orders, lines 154-170, with download_file, lines 190-209
GetOrders ==
    /\ pc = "get_orders"
    /\ \E status \in HttpStatuses :
         IF RaiseForStatus(status)
         THEN /\ Raise("HTTPError")
              /\ UNCHANGED <<files, dirs, orders>>
         ELSE /\ dirs' = dirs \cup {CURDIR}
              /\ files' = files \cup {CsvFile}
              /\ orders' = ReadTable(remote)
              /\ pc' = "open_site"
              /\ err' = err
    /\ UNCHANGED <<envVars, zipContents, i, form, pageVars, lastCheck,
                   submitClicks, rowObs, modalObs, newOrderClicks,
                   archiveCalls, browserUsed, runVars>>

\* open_robot_order_website, lines 96-103: browser.configure, browser.goto
OpenRobotOrderWebsite ==
    /\ pc = "open_site"
    /\ browserUsed' = TRUE
    /\ \E ok \in BOOLEAN :
         IF ok
         THEN /\ pc' = "go_to_order_page"
              /\ err' = err
         ELSE Raise("TimeoutError")
    /\ UNCHANGED <<envVars, fsVars, orders, i, form, pageVars, lastCheck,
                   submitClicks, rowObs, modalObs, newOrderClicks,
                   archiveCalls, runVars>>

\* line 33 and go_to_order_page, lines 106-107; the order page may open
\* with the modal on top
GoToOrderPage ==
    /\ pc = "go_to_order_page"
    /\ \E ok \in BOOLEAN, m \in BOOLEAN :
         IF ok
         THEN /\ modalVisible' = m
              /\ modalSeen' = (modalSeen \/ m)
              /\ pc' = "loop"
              /\ err' = err
         ELSE /\ Raise("TimeoutError")
              /\ UNCHANGED <<modalVisible, modalSeen>>
    /\ UNCHANGED <<envVars, fsVars, orders, i, form, profile, bannerVisible,
                   receiptPresent, rejectsLeft, lastCheck, submitClicks,
                   rowObs, closeCalls, okClicks, newOrderClicks,
                   archiveCalls, browserUsed, runVars>>

\* `for order in orders`, line 35: the next row (for which the site has some
\* plan), or fall through to line 43
NextRow(k) == k + 1

ForLoop ==
    /\ pc = "loop"
    /\ IF i < Len(orders)
       THEN /\ i' = NextRow(i)
            /\ pc' = "close_modal"
            /\ \E p \in 0..Forever :
                 /\ profile' = p
                 /\ rejectsLeft' = p
            /\ submitClicks' = 0
            /\ lastCheck' = "none"
       ELSE /\ pc' = "archive"
            /\ UNCHANGED <<i, profile, rejectsLeft, submitClicks, lastCheck>>
    /\ UNCHANGED <<envVars, fsVars, err, orders, form, bannerVisible,
                   receiptPresent, modalVisible, rowObs, modalObs,
                   newOrderClicks, archiveCalls, browserUsed, runVars>>

\* the OK click made without looking for the modal
ModalCheckSkipped == TRUE

\* close_annoying_modal, line 111: the condition guarding the OK click
ModalCheck == modalVisible

\* close_annoying_modal, lines 110-112
CloseAnnoyingModal ==
    /\ pc = "close_modal"
    /\ closeCalls' = closeCalls + 1
    /\ IF ModalCheck
       THEN \E ok \in BOOLEAN :
              IF ok
              THEN /\ okClicks' = okClicks + 1
                   /\ modalVisible' = FALSE
                   /\ pc' = "set_head"
                   /\ err' = err
              ELSE /\ Raise("TimeoutError")
                   /\ UNCHANGED <<okClicks, modalVisible>>
       ELSE /\ pc' = "set_head"
            /\ UNCHANGED <<okClicks, modalVisible, err>>
    /\ UNCHANGED <<envVars, fsVars, orders, i, form, profile, bannerVisible,
                   receiptPresent, rejectsLeft, lastCheck, submitClicks,
                   rowObs, modalSeen, newOrderClicks, archiveCalls,
                   browserUsed, runVars>>

\* one control of the form set from one column of the row
SetField(field, col, next) ==
    /\ \E ok \in BOOLEAN :
         IF ok
         THEN /\ form' = Append(form, <<field, orders[i][col]>>)
              /\ pc' = next
              /\ err' = err
         ELSE /\ Raise("TimeoutError")
              /\ form' = form
    /\ UNCHANGED <<envVars, fsVars, orders, i, pageVars, lastCheck,
                   submitClicks, accepted, captures, writtenBy, modalObs,
                   newOrderClicks, archiveCalls, browserUsed, runVars>>

\* fill_the_form, line 128, and set_head, lines 146-147
SetHead ==
    /\ pc = "set_head"
    /\ fills' = [fills EXCEPT ![i] = @ + 1]
    /\ SetField("head", "Head", "set_body")

\* fill_the_form, line 129, and set_body, lines 150-151
SetBody ==
    /\ pc = "set_body"
    /\ fills' = fills
    /\ SetField("body", "Body", "set_legs")

\* a form fill that stops after the legs
SetLegsLast ==
    /\ pc = "set_legs"
    /\ fills' = fills
    /\ SetField("legs", "Legs", "submit")

\* fill_the_form, line 130, and set_legs, lines 142-143
SetLegs ==
    /\ pc = "set_legs"
    /\ fills' = fills
    /\ SetField("legs", "Legs", "set_address")

\* fill_the_form, line 131, and set_address, lines 138-139
SetAddress ==
    /\ pc = "set_address"
    /\ fills' = fills
    /\ SetField("address", "Address", "submit")

Min(a, b) == IF a < b THEN a ELSE b

\* submit_order, lines 134-135 (called from line 38 and from line 40); the
\* site answers the click with the error banner or with the receipt page
SubmitOrder ==
    /\ pc = "submit"
    /\ \E ok \in BOOLEAN, r \in BOOLEAN :
         IF ok
         THEN /\ submitClicks' = Min(submitClicks + 1, MaxClicks)
              /\ lastCheck' = "none"
              /\ pc' = "check_banner"
              /\ err' = err
              /\ IF profile = Forever \/ rejectsLeft > 0
                 THEN /\ bannerVisible' = TRUE
                      /\ receiptPresent' = FALSE
                      /\ rejectsLeft' = IF profile = Forever THEN rejectsLeft
                                        ELSE rejectsLeft - 1
                      /\ accepted' = accepted
                 ELSE /\ bannerVisible' = FALSE
                      /\ receiptPresent' = r
                      /\ rejectsLeft' = rejectsLeft
                      /\ accepted' = [accepted EXCEPT ![i] = Min(@ + 1, MaxClicks)]
         ELSE /\ Raise("TimeoutError")
              /\ r
              /\ UNCHANGED <<submitClicks, lastCheck, bannerVisible,
                             receiptPresent, rejectsLeft, accepted>>
    /\ UNCHANGED <<envVars, fsVars, orders, i, form, profile, modalVisible,
                   fills, captures, writtenBy, modalObs, newOrderClicks,
                   archiveCalls, browserUsed, runVars>>

\* a retry loop with an attempt cap
BannerCheckCapped == bannerVisible /\ submitClicks < 3

\* a retry loop that never looks at the banner
BannerCheckAlways == TRUE

\* line 39: the condition of `while page.is_visible(".alert-danger")`
BannerCheck == bannerVisible

\* line 39: resubmit (line 40) while the banner shows, else go on to line 41
WhileBanner ==
    /\ pc = "check_banner"
    /\ lastCheck' = IF bannerVisible THEN "visible" ELSE "absent"
    /\ pc' = IF BannerCheck THEN "submit" ELSE "store"
    /\ UNCHANGED <<envVars, fsVars, err, orders, i, form, pageVars,
                   submitClicks, rowObs, modalObs, newOrderClicks,
                   archiveCalls, browserUsed, runVars>>

\* files keyed by the position of the row instead of its order number
OrderNumberByIndex == i

\* the order number passed to store_receipt_as_pdf, line 41
OrderNumber == orders[i]["Order number"]

\* line 75: `if receipt_element := page.locator("#receipt")`. locator()
\* builds a Locator object without querying the page, and the object
\* defines no __bool__ or __len__, so the test is true whether or not the
\* element exists
LocatorTruthy == TRUE

\* store_receipt_as_pdf, lines 67-79, up to the test of the locator
StoreReceiptAsPdf ==
    /\ pc = "store"
    /\ dirs' = dirs \cup MkdirParents(OUTPUT_DIR)
    /\ IF LocatorTruthy
       THEN /\ pc' = "shot_receipt"
            /\ err' = err
       ELSE Raise("ValueError")
    /\ UNCHANGED <<envVars, files, zipContents, orders, i, form, pageVars,
                   lastCheck, submitClicks, rowObs, modalObs, newOrderClicks,
                   archiveCalls, browserUsed, runVars>>

\* line 76: receipt_element.screenshot(path=receipt_file); waits for the
\* element and times out without one; a capture may also return without
\* having left the file on disk (the case lines 82-87 guard against)
ScreenshotReceipt ==
    /\ pc = "shot_receipt"
    /\ \E out \in {"saved", "silent", "timeout"} :
         /\ ~receiptPresent => out = "timeout"
         /\ CASE out = "saved" ->
                   /\ files' = files \cup {ReceiptFile(OrderNumber)}
                   /\ writtenBy' = [writtenBy EXCEPT ![i] = @ \cup {ReceiptFile(OrderNumber)}]
                   /\ pc' = "shot_robot"
                   /\ err' = err
              [] out = "silent" ->
                   /\ pc' = "shot_robot"
                   /\ UNCHANGED <<files, writtenBy, err>>
              [] OTHER ->
                   /\ Raise("TimeoutError")
                   /\ UNCHANGED <<files, writtenBy>>
    /\ UNCHANGED <<envVars, dirs, zipContents, orders, i, form, pageVars,
                   lastCheck, submitClicks, fills, accepted, captures,
                   modalObs, newOrderClicks, archiveCalls, browserUsed, runVars>>

\* line 77 and screenshot_robot, lines 92-93
ScreenshotRobot ==
    /\ pc = "shot_robot"
    /\ \E ok \in BOOLEAN :
         IF ok
         THEN /\ files' = files \cup {RobotFile(OrderNumber)}
              /\ writtenBy' = [writtenBy EXCEPT ![i] = @ \cup {RobotFile(OrderNumber)}]
              /\ pc' = "compose"
              /\ err' = err
         ELSE /\ Raise("TimeoutError")
              /\ UNCHANGED <<files, writtenBy>>
    /\ UNCHANGED <<envVars, dirs, zipContents, orders, i, form, pageVars,
                   lastCheck, submitClicks, fills, accepted, captures,
                   modalObs, newOrderClicks, archiveCalls, browserUsed, runVars>>

\* lines 81-89: the PDF is composed if the receipt image is on disk
AddFilesToPdf ==
    /\ pc = "compose"
    /\ IF ReceiptFile(OrderNumber) \in files
       THEN /\ files' = files \cup {PdfFile(OrderNumber)}
            /\ writtenBy' = [writtenBy EXCEPT ![i] = @ \cup {PdfFile(OrderNumber)}]
            /\ captures' = [captures EXCEPT ![i] = @ + 1]
            /\ pc' = "new_order"
            /\ err' = err
       ELSE /\ Raise("FileNotFoundError")
            /\ UNCHANGED <<files, writtenBy, captures>>
    /\ UNCHANGED <<envVars, dirs, zipContents, orders, i, form, pageVars,
                   lastCheck, submitClicks, fills, accepted, modalObs,
                   newOrderClicks, archiveCalls, browserUsed, runVars>>

\* create_new_order, lines 46-47 (line 42); the site resets the form and
\* may show the modal again
CreateNewOrder ==
    /\ pc = "new_order"
    /\ \E ok \in BOOLEAN, m \in BOOLEAN :
         IF ok
         THEN /\ newOrderClicks' = newOrderClicks + 1
              /\ form' = <<>>
              /\ bannerVisible' = FALSE
              /\ receiptPresent' = FALSE
              /\ modalVisible' = m
              /\ modalSeen' = (modalSeen \/ m)
              /\ pc' = "loop"
              /\ err' = err
         ELSE /\ Raise("TimeoutError")
              /\ m
              /\ UNCHANGED <<newOrderClicks, form, bannerVisible,
                             receiptPresent, modalVisible, modalSeen>>
    /\ UNCHANGED <<envVars, fsVars, orders, i, profile, rejectsLeft, lastCheck,
                   submitClicks, rowObs, closeCalls, okClicks, archiveCalls,
                   browserUsed, runVars>>

\* archive_receipts, lines 173-187 (line 43): the folder compressed is
\* "./output/orders/" whatever OUTPUT_DIR is. What the archiver does with a
\* folder that is missing or holds no file is the library's choice: it
\* writes an empty archive or raises
ArchiveReceipts ==
    /\ pc = "archive"
    /\ archiveCalls' = archiveCalls + 1
    /\ \E written \in BOOLEAN :
         /\ ~written => FilesUnder(files, ArchiveSource) = {}
         /\ IF written
            THEN /\ zipContents' = FilesUnder(files, ArchiveSource)
                 /\ files' = files \cup {ZipFile}
                 /\ pc' = "done"
                 /\ err' = err
            ELSE /\ Raise("ArchiveError")
                 /\ UNCHANGED <<files, zipContents>>
    /\ UNCHANGED <<envVars, dirs, orders, i, form, pageVars, lastCheck,
                   submitClicks, rowObs, modalObs, newOrderClicks,
                   browserUsed, runVars>>

\* the task is started again, as a new process, on the same file system
\* with the same environment and CSV
Rerun ==
    /\ pc = "done"
    /\ runs < MaxRuns
    /\ runs' = runs + 1
    /\ snap' = FilesUnder(files, OUTPUT_DIR)
    /\ files0' = files
    /\ dirs0' = dirs
    /\ pc' = "boot"
    /\ err' = "none"
    /\ orders' = <<>>
    /\ i' = 0
    /\ form' = <<>>
    /\ bannerVisible' = FALSE
    /\ receiptPresent' = FALSE
    /\ modalVisible' = FALSE
    /\ rejectsLeft' = 0
    /\ profile' = 0
    /\ lastCheck' = "none"
    /\ submitClicks' = 0
    /\ fills' = Zeroes(remote)
    /\ accepted' = Zeroes(remote)
    /\ captures' = Zeroes(remote)
    /\ writtenBy' = [k \in DOMAIN remote |-> {}]
    /\ closeCalls' = 0
    /\ okClicks' = 0
    /\ modalSeen' = FALSE
    /\ newOrderClicks' = 0
    /\ archiveCalls' = 0
    /\ browserUsed' = FALSE
    /\ UNCHANGED <<envVars, fsVars>>

Next ==
    \/ ModuleLoad
    \/ GetOrders
    \/ OpenRobotOrderWebsite
    \/ GoToOrderPage
    \/ ForLoop
    \/ CloseAnnoyingModal
    \/ SetHead
    \/ SetBody
    \/ SetLegs
    \/ SetAddress
    \/ SubmitOrder
    \/ WhileBanner
    \/ StoreReceiptAsPdf
    \/ ScreenshotReceipt
    \/ ScreenshotRobot
    \/ AddFilesToPdf
    \/ CreateNewOrder
    \/ ArchiveReceipts
    \/ Rerun

Spec == Init /\ [][Next]_vars

\* the process is scheduled until it exits: a step that can be taken is taken
FairSpec == Spec /\ WF_vars(Next)

\* ---------------------------------------------------------------- claims
Numbers(t) == { t[k]["Order number"] : k \in DOMAIN t }

FileSet(n) == {ReceiptFile(n), RobotFile(n), PdfFile(n)}

FullForm == << <<"head", orders[i]["Head"]>>, <<"body", orders[i]["Body"]>>,
               <<"legs", orders[i]["Legs"]>>, <<"address", orders[i]["Address"]>> >>

InRow == i \in DOMAIN orders

\* C1: a run that completes on a table of N distinct order numbers, started
\* with nothing but this table's receipts under orders/, leaves exactly N
\* files under orders/ of the configured output root, and receipts.zip
\* contains all of them.
C1_ExactlyNFilesAllZipped ==
    (/\ pc = "done"
     /\ Distinct(orders)
     /\ FilesUnder(files0, ORDERS_DIR) \subseteq { PdfFile(n) : n \in Numbers(orders) })
    => /\ Cardinality(FilesUnder(files, ORDERS_DIR)) = Len(orders)
       /\ FilesUnder(files, ORDERS_DIR) \subseteq zipContents

\* C2 as stated: after a failed download no browser action has happened and
\* the run has created neither the output root, nor orders/, nor any file
\* under the output root.
C2_NothingCreated ==
    err = "HTTPError"
    => /\ ~browserUsed
       /\ FilesUnder(files, OUTPUT_DIR) = FilesUnder(files0, OUTPUT_DIR)
       /\ (dirs \ dirs0) \cap {OUTPUT_DIR, ORDERS_DIR} = {}

\* C2 (amended): after a failed download no browser action has happened and
\* the run has created no file under the output root (no screenshot, PDF or
\* receipts.zip) nor the CSV file; the output root and orders/ exist, made
\* at module load.
C2_NoBrowserNoFiles ==
    err = "HTTPError"
    => /\ ~browserUsed
       /\ pc = "failed"
       /\ files = files0
       /\ {OUTPUT_DIR, ORDERS_DIR} \subseteq dirs
       /\ dirs \ dirs0 \subseteq {OUTPUT_DIR, ORDERS_DIR}

C2_Witness ==
    /\ err = "HTTPError"
    /\ OUTPUT_DIR \notin dirs0
    /\ ORDERS_DIR \in dirs

\* the row being processed is one whose submission always shows the banner
Stuck == InRow /\ profile = Forever

\* C3: while the row whose submission always shows the banner is being
\* processed, nothing has been captured for it, 'new order' has not been
\* clicked for it, no later row is taken up and nothing is archived; each
\* submit click is followed by another, so the click count reaches any
\* bound (unless a click itself times out).
C3_RetriesForever ==
    /\ [](Stuck => /\ captures[i] = 0
                   /\ writtenBy[i] = {}
                   /\ newOrderClicks = i - 1
                   /\ archiveCalls = 0
                   /\ accepted[i] = 0
                   /\ pc \notin {"store", "shot_receipt", "shot_robot", "compose",
                                 "new_order", "loop", "archive", "done"})
    /\ [][Stuck => i' = i /\ runs' = runs]_vars
    /\ ((Stuck /\ pc = "submit") ~> (submitClicks = MaxClicks \/ pc = "failed"))

C3_Witness ==
    /\ Stuck
    /\ submitClicks = MaxClicks
    /\ pc = "check_banner"
    /\ bannerVisible

\* C4: close_annoying_modal clicks OK only when the modal header is visible;
\* with the header not visible it changes nothing and raises nothing, so on
\* a page that never showed the modal no OK click is ever made; it has been
\* called exactly once for each row whose form fill has started.
C4_ModalDismissal ==
    /\ [][okClicks' > okClicks => modalVisible /\ pc = "close_modal"]_vars
    /\ [][(pc = "close_modal" /\ ~modalVisible)
           => /\ pc' = "set_head"
              /\ err' = err
              /\ okClicks' = okClicks
              /\ modalVisible' = modalVisible]_vars
    /\ [](~modalSeen => okClicks = 0)
    /\ [](pc = "close_modal" => closeCalls = i - 1)
    /\ [](pc \in {"set_head", "set_body", "set_legs", "set_address", "submit"}
           => closeCalls = i /\ ~modalVisible)
    /\ [](\A k \in DOMAIN fills : fills[k] >= 1 => closeCalls >= k)

C4_Witness ==
    /\ pc = "set_head"
    /\ closeCalls = 2
    /\ ~modalSeen
    /\ okClicks = 0

\* C5: when the order was accepted but the page holds no #receipt element,
\* store_receipt_as_pdf fails with ValueError and has written neither image
\* nor the PDF for that order.
C5_MissingElementError ==
    (/\ err # "none"
     /\ InRow
     /\ accepted[i] >= 1
     /\ ~receiptPresent)
    => /\ err = "ValueError"
       /\ writtenBy[i] = {}

\* a failure raised while a row was being processed
FailedInRow == err \in {"TimeoutError", "FileNotFoundError", "ValueError"} /\ i >= 1

\* C6: after a failure in the processing of a row nothing more happens: no
\* later row is filled or submitted, archive_receipts is not executed and
\* no receipts.zip is written by the run, and every file the run had
\* written (and every file that was there before) is still there.
C6_FailureAbortsRun ==
    /\ [](FailedInRow
           => /\ pc = "failed"
              /\ archiveCalls = 0
              /\ (ZipFile \in files => ZipFile \in files0)
              /\ \A k \in DOMAIN fills : k > i => fills[k] = 0 /\ accepted[k] = 0
              /\ \A k \in DOMAIN writtenBy : writtenBy[k] \subseteq files
              /\ files0 \subseteq files)
    /\ [][err # "none" => UNCHANGED vars]_vars

C6_Witness ==
    /\ pc = "failed"
    /\ i = 2
    /\ captures[1] = 1
    /\ writtenBy[2] # {}
    /\ err = "TimeoutError"

\* C7: when a second (or later) run on the same table and output root has
\* completed, the files under the output root are those that were there
\* after the run before it.
C7_RerunSameFiles ==
    (runs >= 2 /\ pc = "done") => FilesUnder(files, OUTPUT_DIR) = snap

C7_Witness ==
    /\ runs = 2
    /\ pc = "done"
    /\ Cardinality(Numbers(orders)) = 2
    /\ ZipFile \in snap

\* C8: the four fields are filled head, body, legs, address before the
\* first submit click; the capture of a row starts only after a submit
\* click after which the banner was checked and not seen; 'new order' is
\* clicked only after that row's PDF is composed; archive_receipts runs at
\* most once, after the 'new order' click of the last row.
C8_PerOrderStateMachine ==
    /\ [](InRow /\ pc # "loop" /\ pc # "failed"
           => \E k \in 0..4 : form = SubSeq(FullForm, 1, k))
    /\ [](pc \in {"submit", "check_banner"} => form = FullForm)
    /\ [][submitClicks' > submitClicks => form = FullForm]_vars
    /\ [](pc \in {"store", "shot_receipt", "shot_robot", "compose", "new_order"}
           => /\ lastCheck = "absent"
              /\ ~bannerVisible
              /\ submitClicks >= 1
              /\ accepted[i] = 1)
    /\ [][(writtenBy' # writtenBy /\ runs' = runs)
           => lastCheck = "absent" /\ ~bannerVisible]_vars
    /\ [][newOrderClicks' > newOrderClicks
           => captures[i] = 1 /\ PdfFile(OrderNumber) \in files]_vars
    /\ [][archiveCalls' > archiveCalls
           => archiveCalls = 0 /\ newOrderClicks = Len(orders)]_vars
    /\ [](archiveCalls <= 1)

C8_Witness ==
    /\ pc = "done"
    /\ Len(orders) >= 2
    /\ submitClicks >= 2
    /\ newOrderClicks = Len(orders)

\* C9: the table read keeps the rows of the CSV in order; rows are taken
\* one at a time in that order, a row's fill starting only after the 'new
\* order' click of the row before; when the run completes every row has had
\* exactly one form fill, one accepted submission and one capture, and the
\* files written for it are among the three keyed by its order number.
C9_EachRowOnceInOrder ==
    /\ \A k \in DOMAIN orders :
         orders[k]["Order number"] = remote[k]["Order number"]
    /\ \A k \in DOMAIN fills :
         /\ fills[k] <= 1 /\ accepted[k] <= 1 /\ captures[k] <= 1
         /\ fills[k] >= 1 => newOrderClicks >= k - 1 /\ k <= i
         /\ writtenBy[k] # {} => k \in DOMAIN orders
                                 /\ writtenBy[k] \subseteq FileSet(orders[k]["Order number"])
    /\ pc = "done" =>
         /\ DOMAIN orders = DOMAIN remote
         /\ \A k \in DOMAIN orders :
              /\ fills[k] = 1 /\ accepted[k] = 1 /\ captures[k] = 1
              /\ {RobotFile(orders[k]["Order number"]), PdfFile(orders[k]["Order number"])}
                    \subseteq writtenBy[k]
              /\ FileSet(orders[k]["Order number"]) \subseteq files

C9_Witness ==
    /\ pc = "done"
    /\ Len(orders) >= 2
    /\ orders[1]["Order number"] > orders[2]["Order number"]

\* C10: a run ends, either failed (the download or an action failed) or
\* done with archive_receipts executed once, unless it comes to a row that
\* is rejected forever; a completed run on the empty table has
\* made no fill, submit, capture or 'new order' click and has archived.
C10_Terminates ==
    /\ <>(Stuck \/ pc = "failed" \/ (pc = "done" /\ archiveCalls = 1))
    /\ [](pc = "done" => archiveCalls = 1 /\ ZipFile \in files)
    /\ []((pc = "done" /\ remote = <<>>)
           => /\ form = <<>>
              /\ submitClicks = 0
              /\ closeCalls = 0
              /\ newOrderClicks = 0
              /\ FilesUnder(files, OUTPUT_DIR) \ files0 \subseteq {ZipFile})

C10_Witness ==
    /\ pc = "done"
    /\ archiveCalls = 1
    /\ Len(orders) >= 2
    /\ profile = MaxRejects
    /\ submitClicks = MaxRejects + 1

====
